---- MODULE Spec2Model ----
(***************************************************************************)
(* Model of the endpoint-snapping pass of slco_build_road_network.py:      *)
(* perform_snapping (the loop over snap areas and, inside it, the update    *)
(* cursor over the lines of one area), update_geom, and the status table   *)
(* snap_df built by prep_snap_df.                                          *)
(*                                                                         *)
(* A point is <<x, y>> in metres (state plane).  A shape is a sequence of   *)
(* parts, a part is a sequence of points.  Distances are compared through  *)
(* their squares (math.sqrt is monotone), lengths are in millimetres.       *)
(***************************************************************************)
EXTENDS Integers, Sequences, FiniteSets, TLC

\* ------------------------------------------------------------------ bounds
NumLines == 3
MaxNbhd == 2

\* ------------------------------------------------------- program constants
snap_radius == 4
CaseRadius == 4
NULL == 0 - 1
Milli == 1000

Lines == 1..NumLines

SNAPPED == "snapped - done"
STATIC == "static - done"
UNRESOLVED == ""

\* ---------------------------------------------------------------- geometry
Dist2(p, q) == (p[1] - q[1]) * (p[1] - q[1]) + (p[2] - q[2]) * (p[2] - q[2])

RECURSIVE SqrtSearch(_, _, _)
SqrtSearch(n, lo, hi) ==
  IF lo = hi THEN lo
  ELSE LET mid == (lo + hi + 1) \div 2
       IN IF mid * mid <= n THEN SqrtSearch(n, mid, hi)
                            ELSE SqrtSearch(n, lo, mid - 1)

\* floor of the square root
ISqrt(n) == SqrtSearch(n, 0, IF n < 46340 THEN n ELSE 46340)

\* length of a part, in millimetres (rounded down per segment)
RECURSIVE PartLength(_)
PartLength(part) ==
  IF Len(part) < 2 THEN 0
  ELSE ISqrt(Dist2(part[1], part[2]) * Milli * Milli) + PartLength(Tail(part))

\* the Shape_Length field: the geodatabase derives it from the stored shape,
\* all parts included
RECURSIVE Shape_Length(_)
Shape_Length(shape) ==
  IF shape = <<>> THEN 0
  ELSE PartLength(Head(shape)) + Shape_Length(Tail(shape))

partCount(shape) == Len(shape)
\* firstPoint / lastPoint of a polyline: first vertex of the first part, last
\* vertex of the last part
firstPoint(shape) == shape[1][1]
lastPoint(shape) == shape[Len(shape)][Len(shape[Len(shape)])]

\* update_geom with the terminals of the cases exchanged
update_geom_swapped(shape, case, pt) ==
  LET part == shape[1]
      array == IF case \in {2, 4} THEN [part EXCEPT ![Len(part)] = pt]
               ELSE IF case \in {1, 3} THEN [part EXCEPT ![1] = pt]
               ELSE part
  IN <<array>>

\* update_geom rebuilding the line from its two terminals only
update_geom_straight(shape, case, pt) ==
  LET part == shape[1]
  IN IF case \in {1, 3} THEN << <<part[1], pt>> >>
     ELSE IF case \in {2, 4} THEN << <<pt, part[Len(part)]>> >>
     ELSE <<part>>

\* update_geom(shape, case, x, y): rebuild part 0 with one terminal replaced
update_geom(shape, case, pt) ==
  LET part == shape[1]
      array == IF case \in {1, 3} THEN [part EXCEPT ![Len(part)] = pt]
               ELSE IF case \in {2, 4} THEN [part EXCEPT ![1] = pt]
               ELSE part
  IN <<array>>

\* ------------------------------------------------- the input feature class
\* Lines around a junction J = (8, 0) and a second junction at (0, 0).
ShapeCatalog ==
  { << << <<0, 0>>, <<8, 0>> >> >>,                      \* ends at J
    << << <<9, 0>>, <<9, 6>> >> >>,                      \* starts 1 m from J
    << << <<9, 0>>, <<10, 2>>, <<11, 0>> >> >>,          \* start 1 m, end 3 m from J
    << << <<6, 0>>, <<10, 0>> >> >>,                     \* 4 m long, across J
    << << <<8, 1>>, <<11, 1>> >> >>,                     \* 3 m long
    << << <<9, 1>>, <<13, 1>> >>, << <<13, 2>>, <<8, 1>> >> >>,  \* two parts
    << << <<8, 0>>, <<10, 0>>, <<8, 0>> >> >>,           \* closed loop at J
    << << <<1, 1>>, <<8, 1>> >> >> }                     \* parallel to the first

\* generate_neartable_and_join_to_streets: every street gets the smallest
\* nonzero distance (held as its square) from one of its two end points to
\* another end point within snap_radius, NULL when there is none
NearDists(g, l) ==
  LET mine == {firstPoint(g[l]), lastPoint(g[l])}
      all == UNION {{firstPoint(g[k]), lastPoint(g[k])} : k \in DOMAIN g}
      ds == {Dist2(e, p) : e \in mine, p \in all}
  IN {d \in ds : d # 0 /\ d <= snap_radius * snap_radius}

JoinNearDist(g) ==
  [l \in DOMAIN g |->
     IF NearDists(g, l) = {} THEN NULL
     ELSE CHOOSE m \in NearDists(g, l) : \A d \in NearDists(g, l) : m <= d]

VARIABLES
  geom,         \* SHAPE@ of every line of the snapped feature class
  rows,         \* OBJECTIDs still present in the feature class
  NEAR_DIST,    \* the joined NEAR_DIST field (NULL or > 0), squared
  snap_df,      \* status table: oid -> [start, end]
  pc,           \* "areas" | "cursor" | "done" | "aborted" | "commented"
  item_number,  \* snap areas processed
  multi,        \* multipart warnings
  deletes,      \* deleted lines
  ucursor,      \* rows the open update cursor has yet to yield, in order
  cnt,          \* cnt of perform_snapping
  first,        \* first_oid, first_start, first_end (held anchor coordinates)
  snap_fields,  \* snap_start, snap_end, snap_status of every line
  rerun,        \* second call of perform_snapping: pass, snap areas, snapshot
  ev,           \* history: what the last cursor row did
  hist          \* history: what happened to each line so far

vars == <<geom, rows, NEAR_DIST, snap_df, pc, item_number, multi, deletes,
          ucursor, cnt, first, snap_fields, rerun, ev, hist>>

NoStatus == [start |-> UNRESOLVED, end |-> UNRESOLVED]
NoFirst == [oid |-> 0, start |-> <<0, 0>>, end |-> <<0, 0>>]
NoEv == [kind |-> "none", oid |-> 0, scenario |-> 0, dists |-> <<0, 0, 0, 0>>,
         pre |-> NoStatus, fpre |-> NoStatus,
         shape_in |-> <<>>, shape_out |-> <<>>, first |-> NoFirst]
NoHist == [area |-> {},                      \* rows selected by the open cursor
           anchor_shape |-> <<>>,            \* shape of the anchor when it was read
           geom0 |-> <<>>,                   \* geom when the cursor was opened
           snap0 |-> <<>>,                   \* snap_df when the cursor was opened
           reloc0 |-> <<>>,                  \* relocated when the cursor was opened
           anchored |-> {},                  \* lines that have been the anchor
           relocated |-> [l \in Lines |-> [start |-> 0, end |-> 0]],
           warned |-> [l \in Lines |-> 0]]   \* multipart warnings per line

\* AddField: the three text fields are added without a value
NoText == "<Null>"
NoFields == [snap_start |-> NoText, snap_end |-> NoText, snap_status |-> NoText]

\* perform_snapping has been called once, nothing is recorded
NoRerun == [pass |-> 1, log |-> <<>>, todo |-> <<>>,
            base |-> [geom |-> <<>>, snap_df |-> <<>>, rows |-> {}]]

\* prep_snap_df: one row per line whose NEAR_DIST is > 0, both statuses ''
prep_snap_df(nd) ==
  [l \in {k \in Lines : nd[k] # NULL /\ nd[k] > 0} |-> NoStatus]

Init ==
  /\ geom \in [Lines -> ShapeCatalog]
  /\ rows = Lines
  /\ NEAR_DIST = JoinNearDist(geom)
  /\ snap_df = prep_snap_df(NEAR_DIST)
  /\ pc = "areas"
  /\ item_number = 0
  /\ multi = 0
  /\ deletes = 0
  /\ ucursor = <<>>
  /\ cnt = 0
  /\ first = NoFirst
  /\ snap_fields = [l \in Lines |-> NoFields]
  /\ rerun = NoRerun
  /\ ev = NoEv
  /\ hist = NoHist

\* ORDER BY OBJECTID ASC alone
RowBefore_ById(nd, a, b) == a < b

\* ---------------------------------------------------------- the update cursor
\* ORDER BY NEAR_DIST ASC, OBJECTID ASC
RowBefore(nd, a, b) == nd[a] < nd[b] \/ (nd[a] = nd[b] /\ a < b)

\* a cursor that yields every row a second time after it was written back
RECURSIVE OrderBy_twice(_, _)
OrderBy_twice(nd, S) ==
  IF S = {} THEN <<>>
  ELSE LET m == CHOOSE a \in S : \A b \in S \ {a} :
                  nd[a] < nd[b] \/ (nd[a] = nd[b] /\ a < b)
       IN <<m, m>> \o OrderBy_twice(nd, S \ {m})

RECURSIVE OrderBy(_, _)
OrderBy(nd, S) ==
  IF S = {} THEN <<>>
  ELSE LET m == CHOOSE a \in S : \A b \in S \ {a} : RowBefore(nd, a, b)
       IN <<m>> \o OrderBy(nd, S \ {m})

\* OBJECTID IN (near_oids) AND NEAR_DIST IS NOT NULL
snap_query(near_oids) == {l \in near_oids \cap rows : NEAR_DIST[l] # NULL}

\* 'done' in <status>
HasDone(s) == s \in {SNAPPED, STATIC}

\* row[1] < snap_radius
TooShort(shape) == Shape_Length(shape) < snap_radius * Milli

\* the four distances (squared), in the order of the list `distances`
distances(shape, f) ==
  << Dist2(lastPoint(shape), f.end),
     Dist2(firstPoint(shape), f.end),
     Dist2(lastPoint(shape), f.start),
     Dist2(firstPoint(shape), f.start) >>

NonZero(d) == {d[i] : i \in {j \in 1..4 : d[j] > 0}}
\* max(...) in place of min(...)
benchmark_max(d) == CHOOSE m \in NonZero(d) : \A x \in NonZero(d) : m >= x

\* min(d for d in distances if d > 0), defined when NonZero(d) is not empty
benchmark_dist(d) == CHOOSE m \in NonZero(d) : \A x \in NonZero(d) : m <= x

\* <distance> < 4
Within(d2) == d2 < CaseRadius * CaseRadius

\* the chain with its branches in the order 4, 3, 2, 1
scenario_reversed(d, st) ==
  LET b == Within(benchmark_dist(d))
  IN IF Within(d[4]) /\ b /\ ~HasDone(st.start) THEN 4
     ELSE IF Within(d[3]) /\ b /\ ~HasDone(st.end) THEN 3
     ELSE IF Within(d[2]) /\ b /\ ~HasDone(st.start) THEN 2
     ELSE IF Within(d[1]) /\ b /\ ~HasDone(st.end) THEN 1
     ELSE 0

\* the if / elif chain of perform_snapping: the scenario that fires, 0 if none
scenario(d, st) ==
  LET b == Within(benchmark_dist(d))
  IN IF Within(d[1]) /\ b /\ ~HasDone(st.end) THEN 1
     ELSE IF Within(d[2]) /\ b /\ ~HasDone(st.start) THEN 2
     ELSE IF Within(d[3]) /\ b /\ ~HasDone(st.end) THEN 3
     ELSE IF Within(d[4]) /\ b /\ ~HasDone(st.start) THEN 4
     ELSE 0

\* the endpoint of this line that a case moves, the endpoint of the first
\* line it is moved to
ThisRole(c) == IF c \in {1, 3} THEN "end" ELSE "start"
FirstRole(c) == IF c \in {1, 2} THEN "end" ELSE "start"
FirstCoord(c, f) == IF c \in {1, 2} THEN f.end ELSE f.start

\* ------------------------------------------------------------------ actions
\* for snap_oid in snap_area_oids: read near_oids, open the update cursor
OpenCursor(near_oids) ==
  /\ pc = "areas"
  /\ item_number < MaxNbhd
  /\ ucursor' = OrderBy(NEAR_DIST, snap_query(near_oids))
  /\ cnt' = 0
  /\ pc' = "cursor"
  /\ ev' = NoEv
  /\ hist' = [hist EXCEPT !.area = snap_query(near_oids), !.anchor_shape = <<>>,
                          !.geom0 = geom, !.snap0 = snap_df,
                          !.reloc0 = hist.relocated]
  /\ UNCHANGED <<geom, rows, NEAR_DIST, snap_df, item_number, multi, deletes,
                 first, snap_fields>>

OpenArea(near_oids) ==
  /\ OpenCursor(near_oids)
  /\ UNCHANGED rerun

MultiAfter(shape) == IF partCount(shape) > 1 THEN multi + 1 ELSE multi
WarnedAfter(h, oid, shape) ==
  IF partCount(shape) > 1 THEN [h EXCEPT !.warned[oid] = @ + 1] ELSE h

\* a row shorter than snap_radius: deleteRow
DeleteRow ==
  /\ pc = "cursor" /\ ucursor # <<>>
  /\ LET oid == Head(ucursor)
         shape == geom[oid]
     IN /\ TooShort(shape)
        /\ multi' = MultiAfter(shape)
        /\ deletes' = deletes + 1
        /\ rows' = rows \ {oid}
        /\ ev' = [NoEv EXCEPT !.kind = "deleted", !.oid = oid, !.shape_in = shape,
                              !.pre = snap_df[oid], !.first = first]
        /\ hist' = WarnedAfter(hist, oid, shape)
  /\ ucursor' = Tail(ucursor)
  /\ UNCHANGED <<geom, NEAR_DIST, snap_df, pc, item_number, cnt, first, snap_fields, rerun>>

\* the first row that is long enough: hold its coordinates (cnt == 0)
AnchorRow ==
  /\ pc = "cursor" /\ ucursor # <<>>
  /\ LET oid == Head(ucursor)
         shape == geom[oid]
     IN /\ ~TooShort(shape)
        /\ cnt = 0
        /\ multi' = MultiAfter(shape)
        /\ first' = [oid |-> oid, start |-> firstPoint(shape), end |-> lastPoint(shape)]
        /\ ev' = [NoEv EXCEPT !.kind = "anchor", !.oid = oid, !.shape_in = shape,
                              !.shape_out = shape, !.pre = snap_df[oid],
                              !.fpre = snap_df[oid], !.first = first']
        /\ hist' = [WarnedAfter(hist, oid, shape) EXCEPT
                      !.anchor_shape = shape, !.anchored = @ \cup {oid}]
  /\ cnt' = cnt + 1
  /\ ucursor' = Tail(ucursor)
  /\ UNCHANGED <<geom, rows, NEAR_DIST, snap_df, pc, item_number, deletes, snap_fields, rerun>>

\* a later row, one of the four cases fires
SnapRow ==
  /\ pc = "cursor" /\ ucursor # <<>>
  /\ LET oid == Head(ucursor)
         shape == geom[oid]
         d == distances(shape, first)
         c == scenario(d, snap_df[oid])
         new_geom == update_geom(shape, c, FirstCoord(c, first))
     IN /\ ~TooShort(shape)
        /\ cnt # 0
        /\ NonZero(d) # {}
        /\ c # 0
        /\ multi' = MultiAfter(shape)
        /\ geom' = [geom EXCEPT ![oid] = new_geom]
        /\ snap_df' = [[snap_df EXCEPT ![oid][ThisRole(c)] = SNAPPED]
                         EXCEPT ![first.oid][FirstRole(c)] = STATIC]
        /\ ev' = [kind |-> "snapped", oid |-> oid, scenario |-> c, dists |-> d,
                  pre |-> snap_df[oid], fpre |-> snap_df[first.oid],
                  shape_in |-> shape, shape_out |-> new_geom, first |-> first]
        /\ hist' = [WarnedAfter(hist, oid, shape) EXCEPT
                      !.relocated[oid][ThisRole(c)] = @ + 1]
  /\ cnt' = cnt + 1
  /\ ucursor' = Tail(ucursor)
  /\ UNCHANGED <<rows, NEAR_DIST, pc, item_number, deletes, first, snap_fields, rerun>>

\* a later row, no case fires: the row is written back as read
SkipRow ==
  /\ pc = "cursor" /\ ucursor # <<>>
  /\ LET oid == Head(ucursor)
         shape == geom[oid]
         d == distances(shape, first)
     IN /\ ~TooShort(shape)
        /\ cnt # 0
        /\ NonZero(d) # {}
        /\ scenario(d, snap_df[oid]) = 0
        /\ multi' = MultiAfter(shape)
        /\ ev' = [kind |-> "skipped", oid |-> oid, scenario |-> 0, dists |-> d,
                  pre |-> snap_df[oid], fpre |-> snap_df[first.oid],
                  shape_in |-> shape, shape_out |-> shape, first |-> first]
        /\ hist' = WarnedAfter(hist, oid, shape)
  /\ ucursor' = Tail(ucursor)
  /\ UNCHANGED <<geom, rows, NEAR_DIST, snap_df, pc, item_number, deletes, cnt, first,
                 snap_fields, rerun>>

\* a later row whose four distances are all 0: min() of an empty sequence raises
AbortRow ==
  /\ pc = "cursor" /\ ucursor # <<>>
  /\ LET oid == Head(ucursor)
         shape == geom[oid]
         d == distances(shape, first)
     IN /\ ~TooShort(shape)
        /\ cnt # 0
        /\ NonZero(d) = {}
        /\ multi' = MultiAfter(shape)
        /\ ev' = [kind |-> "aborted", oid |-> oid, scenario |-> 0, dists |-> d,
                  pre |-> snap_df[oid], fpre |-> snap_df[first.oid],
                  shape_in |-> shape, shape_out |-> shape, first |-> first]
        /\ hist' = WarnedAfter(hist, oid, shape)
  /\ pc' = "aborted"
  /\ UNCHANGED <<geom, rows, NEAR_DIST, snap_df, item_number, deletes, ucursor, cnt,
                 first, snap_fields, rerun>>

\* the cursor is exhausted: item_number += 1
CloseArea ==
  /\ pc = "cursor" /\ ucursor = <<>>
  /\ item_number' = item_number + 1
  /\ pc' = "areas"
  /\ ev' = NoEv
  /\ hist' = [hist EXCEPT !.area = {}, !.anchor_shape = <<>>,
                          !.geom0 = <<>>, !.snap0 = <<>>, !.reloc0 = <<>>]
  /\ UNCHANGED <<geom, rows, NEAR_DIST, snap_df, multi, deletes, ucursor, cnt, first,
                 snap_fields, rerun>>

\* snap_area_oids is exhausted: the totals are printed
Finish ==
  /\ pc = "areas"
  /\ rerun.todo = <<>>
  /\ pc' = "done"
  /\ UNCHANGED <<geom, rows, NEAR_DIST, snap_df, item_number, multi, deletes,
                 ucursor, cnt, first, snap_fields, rerun, ev, hist>>

\* 'finished' as soon as either status holds 'done'
update_comments_either(st, old) ==
  [snap_start |-> st.start, snap_end |-> st.end,
   snap_status |-> IF HasDone(st.start) \/ HasDone(st.end) THEN "finished"
                   ELSE old.snap_status]

\* update_comments, one row: row[1], row[2] from snap_df, row[3] = 'finished'
\* if 'done' is in both
update_comments(st, old) ==
  [snap_start |-> st.start, snap_end |-> st.end,
   snap_status |-> IF HasDone(st.start) /\ HasDone(st.end) THEN "finished"
                   ELSE old.snap_status]

\* update_comments: the rows whose OBJECTID is in the index of snap_df; with an
\* empty index the query is OBJECTID IN () and the cursor raises
UpdateComments ==
  /\ pc = "done"
  /\ rerun.pass = 1
  /\ IF DOMAIN snap_df = {}
     THEN pc' = "aborted" /\ UNCHANGED snap_fields
     ELSE /\ pc' = "commented"
          /\ snap_fields' =
               [l \in Lines |->
                  IF l \in rows \cap DOMAIN snap_df
                  THEN update_comments(snap_df[l], snap_fields[l])
                  ELSE snap_fields[l]]
  /\ UNCHANGED <<geom, rows, NEAR_DIST, snap_df, item_number, multi, deletes,
                 ucursor, cnt, first, rerun, ev, hist>>

Next ==
  \/ \E near_oids \in (SUBSET Lines) \ {{}} : OpenArea(near_oids)
  \/ DeleteRow
  \/ AnchorRow
  \/ SnapRow
  \/ SkipRow
  \/ AbortRow
  \/ CloseArea
  \/ Finish
  \/ UpdateComments

Spec == Init /\ [][Next]_vars

\* ------------------------------------------- perform_snapping called again
\* first call: the snap area is processed and its near_oids are recorded
FirstRunArea(near_oids) ==
  /\ rerun.pass = 1
  /\ OpenCursor(near_oids)
  /\ rerun' = [rerun EXCEPT !.log = Append(@, near_oids)]

\* perform_snapping is entered again: the counters start at 0, snap_df and
\* the feature class are what the first call left
Rerun ==
  /\ pc = "done"
  /\ rerun.pass = 1
  /\ pc' = "areas"
  /\ item_number' = 0
  /\ multi' = 0
  /\ deletes' = 0
  /\ rerun' = [pass |-> 2, log |-> rerun.log, todo |-> rerun.log,
               base |-> [geom |-> geom, snap_df |-> snap_df, rows |-> rows]]
  /\ UNCHANGED <<geom, rows, NEAR_DIST, snap_df, ucursor, cnt, first, snap_fields,
                 ev, hist>>

\* second call: the same snap areas with the same near_oids, in the same order
SecondRunArea ==
  /\ rerun.pass = 2
  /\ rerun.todo # <<>>
  /\ OpenCursor(Head(rerun.todo))
  /\ rerun' = [rerun EXCEPT !.todo = Tail(@)]

NextRerun ==
  \/ \E near_oids \in (SUBSET Lines) \ {{}} : FirstRunArea(near_oids)
  \/ SecondRunArea
  \/ DeleteRow
  \/ AnchorRow
  \/ SnapRow
  \/ SkipRow
  \/ AbortRow
  \/ CloseArea
  \/ Finish
  \/ Rerun

SpecRerun == Init /\ [][NextRerun]_vars

\* ------------------------------------------------------------------- claims
\* vocabulary of the claims
Roles == {"start", "end"}
Endpoint(shape, role) == IF role = "start" THEN firstPoint(shape) ELSE lastPoint(shape)
\* the pairing of each case, as the four cases are numbered:
\* (1) this.end - anchor.end, (2) this.start - anchor.end,
\* (3) this.end - anchor.start, (4) this.start - anchor.start
MovedRole(c) == <<"end", "start", "end", "start">>[c]
PairedRole(c) == <<"end", "end", "start", "start">>[c]
RowCompared == ev.kind \in {"snapped", "skipped"}

\* C1: a status field that holds a done value is never changed by a later
\* step (so every field changes at most once, from unresolved to done), the
\* static-done writes on the anchor included.
C1_StatusImmutableOnceDone ==
  [][\A l \in DOMAIN snap_df : \A r \in Roles :
       HasDone(snap_df[l][r]) => snap_df'[l][r] = snap_df[l][r]]_vars

\* C2: after a case has fired for a line, the moved endpoint of the line is at
\* the held coordinate of the paired anchor endpoint, which is where the
\* anchor's endpoint is stored; the moved endpoint is snapped-done and the
\* anchor's endpoint static-done.
C2_SnapMovesToAnchor ==
  ev.kind = "snapped" =>
    LET c == ev.scenario
        held == IF PairedRole(c) = "end" THEN ev.first.end ELSE ev.first.start
    IN /\ Endpoint(geom[ev.oid], MovedRole(c)) = held
       /\ Endpoint(geom[ev.oid], MovedRole(c))
            = Endpoint(geom[ev.first.oid], PairedRole(c))
       /\ snap_df[ev.oid][MovedRole(c)] = SNAPPED
       /\ snap_df[ev.first.oid][PairedRole(c)] = STATIC

\* a case fired and moved an endpoint over a distance > 0
C2_Witness ==
  /\ ev.kind = "snapped"
  /\ ev.dists[ev.scenario] > 0
  /\ ev.shape_in # ev.shape_out

\* C3: a case fires only for a pairing whose distance is within the radius and
\* equal to the benchmark, with the moving endpoint unresolved.
C3_FiresOnlyAtBenchmark ==
  ev.kind = "snapped" =>
    /\ Within(ev.dists[ev.scenario])
    /\ ev.dists[ev.scenario] = benchmark_dist(ev.dists)
    /\ ev.pre[MovedRole(ev.scenario)] = UNRESOLVED

\* the condition under which the code lets case k fire for the last row
FiringCondition(k) ==
  /\ Within(ev.dists[k])
  /\ Within(benchmark_dist(ev.dists))
  /\ ev.pre[MovedRole(k)] = UNRESOLVED

\* C4: the case applied to a line is the first, in the order 1, 2, 3, 4, whose
\* firing condition holds; a later case is applied only when every earlier
\* one fails, and no case is applied only when all four fail.
C4_FirstInPriorityOrder ==
  /\ ev.kind = "snapped" =>
       /\ FiringCondition(ev.scenario)
       /\ \A j \in 1..(ev.scenario - 1) : ~FiringCondition(j)
  /\ ev.kind = "skipped" => \A j \in 1..4 : ~FiringCondition(j)

\* several cases qualified for one line, and one that is not the last of
\* them was applied
C4_Witness ==
  /\ ev.kind = "snapped"
  /\ \E j \in (ev.scenario + 1)..4 : FiringCondition(j)

\* C5: the anchor of a neighborhood is the first of the selected lines that
\* take part (the deleted ones aside) by NEAR_DIST ascending, then OBJECTID
\* ascending, and its stored shape stays what it was when it was read.
C5_AnchorFirstAndFixed ==
  hist.anchor_shape # <<>> =>
    /\ first.oid \in hist.area \cap rows
    /\ \A l \in (hist.area \cap rows) \ {first.oid} :
         \/ NEAR_DIST[first.oid] < NEAR_DIST[l]
         \/ NEAR_DIST[first.oid] = NEAR_DIST[l] /\ first.oid < l
    /\ geom[first.oid] = hist.anchor_shape

\* the cursor of a neighborhood is exhausted, a case has fired in it and its
\* anchor is not the line of smallest id
C5_Witness ==
  /\ pc = "cursor" /\ ucursor = <<>>
  /\ ev.kind = "snapped"
  /\ hist.anchor_shape # <<>>
  /\ \E l \in hist.area \cap rows : l < first.oid

OpenPairs ==
  {k \in 1..4 : /\ ev.dists[k] > 0
                /\ Within(ev.dists[k])
                /\ ev.pre[MovedRole(k)] = UNRESOLVED}

C7_OnlyTerminalReplaced ==
  ev.kind = "snapped" =>
    LET src == ev.shape_in[1]
        out == ev.shape_out
        c == ev.scenario
        pos == IF c \in {1, 3} THEN Len(src) ELSE 1
        new_pt == IF c \in {1, 2} THEN ev.first.end ELSE ev.first.start
    IN /\ Len(out) = 1
       /\ Len(out[1]) = Len(src)
       /\ \A i \in 1..Len(src) : out[1][i] = IF i = pos THEN new_pt ELSE src[i]

\* update_geom moved the terminal of a line that has an interior vertex
C7_Witness ==
  /\ ev.kind = "snapped"
  /\ Len(ev.shape_in[1]) >= 3
  /\ ev.shape_out # ev.shape_in
  /\ geom[ev.oid] = ev.shape_out

\* C8: a line that has been deleted for its length never took part in
\* snapping: no endpoint of it was relocated, it was never the anchor, and
\* both its statuses are still unresolved.
C8_DeletedNeverSnapped ==
  \A l \in Lines \ rows :
    /\ hist.relocated[l] = [start |-> 0, end |-> 0]
    /\ l \notin hist.anchored
    /\ snap_df[l] = NoStatus

\* C9: when the run has ended no line shorter than the minimum is left,
\* in a neighborhood or not, and the deletion counter is the number of lines
\* that were removed.
C9_NoShortLineSurvives ==
  pc = "done" =>
    /\ \A l \in rows : ~TooShort(geom[l])
    /\ deletes = Cardinality(Lines \ rows)

\* C10: for a row with more than one part that reached the distance
\* computation, the four distances are those of the first part alone, the
\* row is stored with one part whether or not a case fired, and the line
\* has been counted once as multipart.
C10_MultipartTruncated ==
  (RowCompared /\ partCount(ev.shape_in) > 1) =>
    /\ ev.dists = distances(<<ev.shape_in[1]>>, ev.first)
    /\ partCount(geom[ev.oid]) = 1
    /\ hist.warned[ev.oid] = 1

\* C11: when perform_snapping is run a second time over the result of a
\* finished run, with the same snap areas and the status table of the first
\* run, the shapes, the statuses and the set of lines stay what they were
\* when the second run began.
C11_RerunChangesNothing ==
  rerun.pass = 2 =>
    /\ geom = rerun.base.geom
    /\ snap_df = rerun.base.snap_df
    /\ rows = rerun.base.rows

\* C12: after update_comments every surviving line of the status table
\* carries its start status and its end status in snap_start and snap_end,
\* and its snap_status is 'finished' exactly when both statuses are done
\* values; no line at all is 'finished' with an endpoint that is not done.
C12_CommentsMatchStatus ==
  /\ pc = "commented" =>
       \A l \in rows \cap DOMAIN snap_df :
         /\ snap_fields[l].snap_start = snap_df[l].start
         /\ snap_fields[l].snap_end = snap_df[l].end
         /\ snap_fields[l].snap_status = "finished"
              <=> (HasDone(snap_df[l].start) /\ HasDone(snap_df[l].end))
  /\ \A l \in Lines :
       snap_fields[l].snap_status = "finished" =>
         /\ l \in DOMAIN snap_df
         /\ HasDone(snap_df[l].start) /\ HasDone(snap_df[l].end)

\* update_comments has run over a line with both endpoints done and a line
\* with one endpoint done and the other unresolved
C12_Witness ==
  /\ pc = "commented"
  /\ \E l \in rows \cap DOMAIN snap_df : snap_fields[l].snap_status = "finished"
  /\ \E l \in rows \cap DOMAIN snap_df :
       /\ snap_fields[l].snap_status # "finished"
       /\ \E r \in Roles : snap_fields[l]["snap_" \o r] = SNAPPED

\* the pairings of the last row that are within the radius at the benchmark
QualifyingPairs ==
  {k \in 1..4 : Within(ev.dists[k]) /\ ev.dists[k] = benchmark_dist(ev.dists)}

\* C13: when the endpoint that every qualifying pairing of a row would move
\* is already done, the row is skipped as a whole: its shape, its two
\* statuses and the two statuses of the anchor are what they were, and the
\* run has not stopped.
C13_DoneEndpointSkipsLine ==
  (/\ RowCompared
   /\ QualifyingPairs # {}
   /\ \A k \in QualifyingPairs : HasDone(ev.pre[MovedRole(k)])) =>
    /\ ev.kind = "skipped"
    /\ geom[ev.oid] = ev.shape_in
    /\ snap_df[ev.oid] = ev.pre
    /\ snap_df[ev.first.oid] = ev.fpre

\* rows of the open cursor other than the anchor
Candidates == hist.area \ {first.oid}
\* the cases that fired for l, per endpoint they relocated, and the statuses
\* of l that were set, since the cursor was opened
FiredSinceOpen(l, r) == hist.relocated[l][r] - hist.reloc0[l][r]
RelocatedSinceOpen(l) == {r \in Roles : FiredSinceOpen(l, r) > 0}
SetSinceOpen(l) == {r \in Roles : snap_df[l][r] # hist.snap0[l][r]}

C15_OutcomeFromOwnAndAnchor ==
  /\ ev.kind = "aborted" =>
       \A i \in 2..Len(ucursor) :
         LET own == geom[ucursor[i]]
             d == distances(own, first)
         IN (~TooShort(own) /\ NonZero(d) # {}) => scenario(d, snap_df[ucursor[i]]) = 0
  /\ RowCompared =>
    LET own == hist.geom0[ev.oid]
        st == hist.snap0[ev.oid]
        held == [oid |-> first.oid,
                 start |-> firstPoint(hist.geom0[first.oid]),
                 end |-> lastPoint(hist.geom0[first.oid])]
        d == distances(own, held)
    IN /\ ev.first = held
       /\ ev.shape_in = own
       /\ ev.pre = st
       /\ ev.dists = d
       /\ LET c == scenario(d, st)
          IN /\ ev.scenario = c
             /\ geom[ev.oid] = IF c = 0 THEN own
                               ELSE update_geom(own, c, FirstCoord(c, held))
             /\ snap_df[ev.oid] = IF c = 0 THEN st
                                  ELSE [st EXCEPT ![ThisRole(c)] = SNAPPED]

\* C16: in every step of the run, no endpoint has been relocated more than
\* once, and an endpoint whose status is a done value is at the same
\* coordinate after the step as before it, as long as its line is there.
C16_DoneEndpointFixed ==
  [][\A l \in rows' : \A r \in Roles :
       /\ hist'.relocated[l][r] <= 1
       /\ (l \in DOMAIN snap_df /\ HasDone(snap_df[l][r])) =>
            Endpoint(geom'[l], r) = Endpoint(geom[l], r)]_vars

\* C17: every row that reaches the distance computation has at least one of
\* its four distances greater than 0, so the benchmark is defined and the
\* run does not stop while computing it, also when all four endpoints are at
\* one coordinate.
C17_BenchmarkDefined ==
  ev.kind \in {"snapped", "skipped", "aborted"} =>
    /\ NonZero(ev.dists) # {}
    /\ ev.kind # "aborted"

====
